---------------------------- MODULE Spec2Model ----------------------------
(***************************************************************************)
(* A model of compare_directories.py: the directory comparator            *)
(* (compare_directories), the table window (show_comparison_result,       *)
(* sort_by_column), the CSV export (export_to_csv) and the callbacks of    *)
(* the main window (Browse, Compare, Export).                              *)
(*                                                                         *)
(* Text that the program builds, compares or sorts (cell text, file        *)
(* names, CSV lines) is a sequence of one-character strings, so that       *)
(* str(), "+" and the ordering of str are computed and not assumed.        *)
(* Paths typed into the two entry fields are TLA+ strings; insert() is     *)
(* concatenation.                                                          *)
(*                                                                         *)
(* Directory entries are regular files.  A file is its size, the byte      *)
(* that fills it and its modification time in seconds; its content is      *)
(* the byte string Bytes(f).  Modification times are multiples of six      *)
(* seconds, for which the repr of seconds / 60 has one decimal digit.      *)
(***************************************************************************)
EXTENDS Integers, Sequences, FiniteSets, TLC

VARIABLES
    fs,            \* the file system: directory path -> (name -> file or Absent)
    call,          \* the last call of compare_directories: arguments, effects, return
    dir_a_entry,   \* text of the Directory A entry field
    dir_b_entry,   \* text of the Directory B entry field
    windows,       \* the open result windows, each the rows of its Treeview in order
    last           \* the last callback run by the main loop and what it did:
                   \* how it ended, the message boxes and dialogs it opened,
                   \* what it gave to show_comparison_result and export_to_csv,
                   \* and the file it wrote

vars == <<fs, call, dir_a_entry, dir_b_entry, windows, last>>

-----------------------------------------------------------------------------
(* Bounds *)

\* Number of entry names the comparator's directories draw from.
NumNames == 2

\* Number of result windows that may be open at once.
MaxWindows == 1

-----------------------------------------------------------------------------
(* Text: str, its order and its conversions *)

\* The characters the program's text is made of, in code point order.
Alphabet ==
    << "\n", " ", "\"", ",", "-", ".",
       "0", "1", "2", "3", "4", "5", "6", "7", "8", "9",
       "A", "B", "D", "F", "L", "M", "N", "P", "S",
       "a", "b", "c", "d", "e", "f", "g", "i", "l", "m", "n", "o", "r",
       "s", "t", "u", "y", "z" >>

Ord(c) == CHOOSE i \in 1..Len(Alphabet) : Alphabet[i] = c

Min(a, b) == IF a <= b THEN a ELSE b

Abs(x) == IF x < 0 THEN -x ELSE x

\* s < t for two str values: the first differing character decides, a proper
\* prefix is smaller.
TextLess(s, t) ==
    \E k \in 1..(Min(Len(s), Len(t)) + 1) :
        /\ \A i \in 1..(k - 1) : s[i] = t[i]
        /\ IF k > Len(s) THEN k <= Len(t)
           ELSE k <= Len(t) /\ Ord(s[k]) < Ord(t[k])

Digit(d) == Alphabet[6 + d + 1]

\* str(n) for an int n >= 0.
RECURSIVE IntStr(_)
IntStr(n) == IF n < 10 THEN <<Digit(n)>> ELSE IntStr(n \div 10) \o <<Digit(n % 10)>>

\* str(secs / 60) for secs a multiple of six seconds: the float's shortest repr.
FloatStr(secs) == IntStr(secs \div 60) \o <<".">> \o <<Digit((secs % 60) \div 6)>>

n_a_symbol == <<"-">>
present == <<"P", "r", "e", "s", "e", "n", "t">>
missing == <<"M", "i", "s", "s", "i", "n", "g">>
different_size == <<"D", "i", "f", "f", "e", "r", "e", "n", "t", " ", "S", "i", "z", "e">>
bytes_suffix == <<" ", "b", "y", "t", "e", "s">>
minutes_suffix ==
    <<" ", "m", "i", "n", "u", "t", "e", "s", " ", "e", "a", "r", "l", "i", "e", "r">>

columns ==
    << <<"F", "i", "l", "e", " ", "N", "a", "m", "e">>,
       <<"D", "i", "r", "e", "c", "t", "o", "r", "y", " ", "A", " ",
         "S", "t", "a", "t", "u", "s">>,
       <<"D", "i", "r", "e", "c", "t", "o", "r", "y", " ", "B", " ",
         "S", "t", "a", "t", "u", "s">>,
       <<"S", "i", "z", "e", " ", "D", "i", "f", "f", "e", "r", "e", "n", "c", "e">>,
       <<"L", "a", "s", "t", " ", "M", "o", "d", "i", "f", "i", "e", "d", " ",
         "D", "i", "f", "f", "e", "r", "e", "n", "c", "e">> >>

-----------------------------------------------------------------------------
(* The file system *)

NameList == << <<"a">>, <<"b", ",", "c">>, <<"d">> >>

Names == {NameList[i] : i \in 1..NumNames}

Absent == [size |-> -1, fill |-> 0, mtime |-> 0]

File(s, b, t) == [size |-> s, fill |-> b, mtime |-> t]

\* The files an entry of the comparator's directories may be: empty or of
\* 30 bytes, of two contents, written at two times.  Among them are two files
\* of one size and one time but of different bytes, and two of the same bytes
\* written at different times.
Files == { File(0, 0, 90), File(30, 1, 0), File(30, 2, 0), File(30, 2, 90) }

\* The bytes of a file.
Bytes(f) == [i \in 1..f.size |-> f.fill]

DirA == "/a"
DirB == "/b"
Dirs == {DirA, DirB}

\* The text an entry field may hold: the two directories, or nothing.
Paths == {"", DirA, DirB}

\* The paths compare_directories may be given: these, and a path that does
\* not exist.
CmpPaths == Paths \cup {"/x"}

\* os.path.isdir
IsDir(p) == p \in Dirs

\* set(os.listdir(p)) of a directory p
ListDir(p) == {n \in DOMAIN fs[p] : fs[p][n] # Absent}

\* filecmp.cmp with shallow=True: files of one size and one modification time
\* are taken to be equal.
FileCmp_Shallow(fa, fb) ==
    fa.size = fb.size /\ (fa.mtime = fb.mtime \/ Bytes(fa) = Bytes(fb))

\* filecmp.cmp(path_a, path_b, shallow=False) of two regular files
FileCmp(fa, fb) == fa.size = fb.size /\ Bytes(fa) = Bytes(fb)


-----------------------------------------------------------------------------
(* compare_directories *)

\* The orders in which a Python set of names may be iterated.
OrdersOf(names) ==
    {o \in [1..Cardinality(names) -> names] : \A i, j \in DOMAIN o : o[i] = o[j] => i = j}

\* The names of S in the order o iterates them.
InOrder(S, o) == LET In(n) == n \in S IN SelectSeq(o, In)

None == [kind |-> "None", rows |-> <<>>]

\* pd.DataFrame(all_results, columns=columns)
DataFrame(all_results) == [kind |-> "DataFrame", rows |-> all_results]

\* The guard of line 35.
DirectoryCheckFails(dir_a, dir_b) == ~IsDir(dir_a) \/ ~IsDir(dir_a)

\* Line 59: the row of a file only in Directory A.
OnlyInARow(file) == <<file, present, missing, n_a_symbol, n_a_symbol>>

\* The row of a file only in Directory B with the statuses of line 59.
OnlyInBRow_Swapped(file) == <<file, present, missing, n_a_symbol, n_a_symbol>>

\* Line 63: the row of a file only in Directory B.
OnlyInBRow(file) == <<file, missing, present, n_a_symbol, n_a_symbol>>

\* Line 77.
SizeDiff(stats_a, stats_b) == IntStr(Abs(stats_a.size - stats_b.size)) \o bytes_suffix

\* Line 78 without the division by 60.
TimeDiff_Seconds(stats_a, stats_b) ==
    IntStr(Abs(stats_a.mtime - stats_b.mtime)) \o <<".", "0">> \o minutes_suffix

\* Line 78 without abs().
TimeDiff_Signed(stats_a, stats_b) ==
    (IF stats_a.mtime < stats_b.mtime THEN <<"-">> ELSE << >>)
    \o FloatStr(Abs(stats_a.mtime - stats_b.mtime)) \o minutes_suffix

\* Line 78.
TimeDiff(stats_a, stats_b) == FloatStr(Abs(stats_a.mtime - stats_b.mtime)) \o minutes_suffix

\* Lines 72-84 without the test of line 81.
DifferentRows_NoSizeCheck(file, stats_a, stats_b) ==
    IF ~FileCmp(stats_a, stats_b)
    THEN << <<file, different_size, different_size, SizeDiff(stats_a, stats_b),
              TimeDiff(stats_a, stats_b)>> >>
    ELSE << >>

\* Lines 72-84: the rows (none or one) of a file in both directories.
DifferentRows(file, stats_a, stats_b) ==
    IF ~FileCmp(stats_a, stats_b)
    THEN LET size_diff == SizeDiff(stats_a, stats_b)
             time_diff == TimeDiff(stats_a, stats_b)
         IN  IF ~(size_diff = <<"0">> \o bytes_suffix)
             THEN << <<file, different_size, different_size, size_diff, time_diff>> >>
             ELSE << <<file, present, present, n_a_symbol, n_a_symbol>> >>
    ELSE << >>

\* Lines 57-59.
OnlyInA(dir_a, dir_b, o) ==
    LET files == InOrder(ListDir(dir_a) \ ListDir(dir_b), o)
    IN  [i \in 1..Len(files) |-> OnlyInARow(files[i])]

\* Lines 61-63.
OnlyInB(dir_a, dir_b, o) ==
    LET files == InOrder(ListDir(dir_b) \ ListDir(dir_a), o)
    IN  [i \in 1..Len(files) |-> OnlyInBRow(files[i])]

RECURSIVE Flatten(_)
Flatten(ss) == IF ss = << >> THEN << >> ELSE Head(ss) \o Flatten(Tail(ss))

\* Lines 65-84.
DifferentFiles(dir_a, dir_b, o) ==
    LET common_files == InOrder(ListDir(dir_a) \cap ListDir(dir_b), o)
    IN  Flatten([i \in 1..Len(common_files) |->
                    DifferentRows(common_files[i],
                                  fs[dir_a][common_files[i]],
                                  fs[dir_b][common_files[i]])])

\* The files line 72 compares, and those for which lines 73-74 call os.stat.
ComparedFiles(dir_a, dir_b) == ListDir(dir_a) \cap ListDir(dir_b)

StatedFiles(dir_a, dir_b) ==
    {n \in ComparedFiles(dir_a, dir_b) : ~FileCmp(fs[dir_a][n], fs[dir_b][n])}

\* compare_directories(dir_a, dir_b), its sets iterated in the order o: how
\* it ends (it returns, or os.listdir raises), what it returns, the message
\* boxes it shows, the directories it lists and the files it compares and
\* stats.
CompareDirectories(dir_a, dir_b, o) ==
    IF DirectoryCheckFails(dir_a, dir_b)
    THEN [outcome |-> "returned", ret |-> None,
          msgs |-> <<"Directory Not Found">>,
          listed |-> << >>, compared |-> {}, stated |-> {}]
    ELSE IF ~IsDir(dir_b)
    THEN \* line 54 lists dir_a, line 55 raises
         [outcome |-> "raised", ret |-> None, msgs |-> << >>,
          listed |-> <<dir_a>>, compared |-> {}, stated |-> {}]
    ELSE [outcome |-> "returned",
          ret |-> DataFrame(OnlyInA(dir_a, dir_b, o) \o OnlyInB(dir_a, dir_b, o)
                            \o DifferentFiles(dir_a, dir_b, o)),
          msgs |-> << >>,
          listed |-> <<dir_a, dir_b>>,
          compared |-> ComparedFiles(dir_a, dir_b),
          stated |-> StatedFiles(dir_a, dir_b)]

NoCall == [args |-> << >>, res |-> [outcome |-> "none", ret |-> None, msgs |-> << >>,
                                    listed |-> << >>, compared |-> {}, stated |-> {}]]

-----------------------------------------------------------------------------
(* The main window at start *)

Idle == [op |-> "none", outcome |-> "normal", msgs |-> << >>, shown |-> "no",
         exported |-> "no", save_dialog |-> FALSE, file_path |-> "", wrote |-> FALSE,
         written |-> << >>, arg |-> << >>]

UIStart ==
    /\ dir_a_entry = ""
    /\ dir_b_entry = ""
    /\ windows = << >>
    /\ last = Idle

-----------------------------------------------------------------------------
(* The comparator on its own: any two paths, any file system *)

FileSystems == [Dirs -> [Names -> Files \cup {Absent}]]

InitCmp ==
    /\ fs \in FileSystems
    /\ call = NoCall
    /\ UIStart

\* A call compare_directories(dir_a, dir_b).
CallCompare(dir_a, dir_b, o) ==
    /\ call = NoCall
    /\ call' = [args |-> <<dir_a, dir_b>>, res |-> CompareDirectories(dir_a, dir_b, o)]
    /\ UNCHANGED <<fs, dir_a_entry, dir_b_entry, windows, last>>

NextCmp ==
    \E dir_a \in CmpPaths, dir_b \in CmpPaths, o \in OrdersOf(Names) :
        CallCompare(dir_a, dir_b, o)

SpecCmp == InitCmp /\ [][NextCmp]_vars


-----------------------------------------------------------------------------
(* The entry fields and the directory picker *)

\* text_input.delete(0, tk.END)
Delete(text) == ""

\* entry.insert(0, string)
Insert(text, string) == string \o text

\* select_directory without line 19.
SelectDirectory_NoClear(text) == text

\* select_directory up to the dialog: the text left in the entry field.
SelectDirectory(text) == Delete(text)

\* What filedialog.askdirectory may return: a path, or "" when cancelled.
PickerResults == Paths

-----------------------------------------------------------------------------
(* show_comparison_result and sort_by_column *)

\* The window show_comparison_result(df) leaves open, and whether it raised:
\* the window is created before df.columns is read.
ShowComparisonResult(df) ==
    IF df.kind = "DataFrame"
    THEN [window |-> [has_tree |-> TRUE, rows |-> df.rows], raised |-> FALSE]
    ELSE [window |-> [has_tree |-> FALSE, rows |-> << >>], raised |-> TRUE]

\* A sort that puts x in front of the items of its own key.
RECURSIVE InsertSorted_Unstable(_, _, _)
InsertSorted_Unstable(x, sorted, column) ==
    IF sorted = << >> THEN <<x>>
    ELSE IF ~TextLess(Head(sorted)[column], x[column])
         THEN <<x>> \o sorted
         ELSE <<Head(sorted)>> \o InsertSorted_Unstable(x, Tail(sorted), column)

\* list.sort(key=...) is stable: x goes behind every item whose key is not
\* greater than its own.
RECURSIVE InsertSorted(_, _, _)
InsertSorted(x, sorted, column) ==
    IF sorted = << >> THEN <<x>>
    ELSE IF TextLess(x[column], Head(sorted)[column])
         THEN <<x>> \o sorted
         ELSE <<Head(sorted)>> \o InsertSorted(x, Tail(sorted), column)

RECURSIVE ListSort(_, _)
ListSort(items, column) ==
    IF items = << >> THEN << >>
    ELSE InsertSorted(items[Len(items)], ListSort(SubSeq(items, 1, Len(items) - 1), column),
                      column)

\* tree.move(item, '', index), index counted from 1 here.
TreeMove(children, item, index) ==
    LET Other(r) == r # item
        rest == SelectSeq(children, Other)
    IN  SubSeq(rest, 1, index - 1) \o <<item>> \o SubSeq(rest, index, Len(rest))

RECURSIVE MoveAll(_, _, _)
MoveAll(children, items, index) ==
    IF index > Len(items) THEN children
    ELSE MoveAll(TreeMove(children, items[index], index), items, index + 1)

\* sort_by_column(tree, column): the children of the tree afterwards.
SortByColumn(children, column) == MoveAll(children, ListSort(children, column), 1)

-----------------------------------------------------------------------------
(* export_to_csv *)

SavePath == "out.csv"

\* What filedialog.asksaveasfilename may return: a path, or "" when cancelled.
SaveResults == {"", SavePath}

NeedsQuote(field) == \E i \in 1..Len(field) : field[i] \in {",", "\"", "\n"}

RECURSIVE DoubleQuotes(_)
DoubleQuotes(field) ==
    IF field = << >> THEN << >>
    ELSE (IF Head(field) = "\"" THEN <<"\"", "\"">> ELSE <<Head(field)>>)
         \o DoubleQuotes(Tail(field))

\* A field as csv's QUOTE_MINIMAL writes it.
CsvField(field) ==
    IF NeedsQuote(field) THEN <<"\"">> \o DoubleQuotes(field) \o <<"\"">> ELSE field

RECURSIVE CsvLine(_)
CsvLine(fields) ==
    IF Len(fields) = 1 THEN CsvField(fields[1])
    ELSE CsvField(fields[1]) \o <<",">> \o CsvLine(Tail(fields))

\* df.to_csv(file_path, index=False): the lines of the file.
ToCsv(df) == <<CsvLine(columns)>> \o [i \in 1..Len(df.rows) |-> CsvLine(df.rows[i])]

-----------------------------------------------------------------------------
(* The callbacks of the main window *)

Callback(op) == [Idle EXCEPT !.op = op]

\* The user edits the text of an entry field.
TypeA(text) ==
    /\ dir_a_entry' = text
    /\ last' = Callback("type")
    /\ UNCHANGED <<fs, call, dir_b_entry, windows>>

TypeB(text) ==
    /\ dir_b_entry' = text
    /\ last' = Callback("type")
    /\ UNCHANGED <<fs, call, dir_a_entry, windows>>

\* dir_a_button: dir_a_entry.insert(0, select_directory(dir_a_entry))
BrowseA(picked) ==
    /\ dir_a_entry' = Insert(SelectDirectory(dir_a_entry), picked)
    /\ last' = [Callback("browse_a") EXCEPT !.file_path = picked, !.arg = <<dir_a_entry>>]
    /\ UNCHANGED <<fs, call, dir_b_entry, windows>>

\* dir_b_button: dir_b_entry.insert(0, select_directory(dir_b_entry))
BrowseB(picked) ==
    /\ dir_b_entry' = Insert(SelectDirectory(dir_b_entry), picked)
    /\ last' = [Callback("browse_b") EXCEPT !.file_path = picked, !.arg = <<dir_b_entry>>]
    /\ UNCHANGED <<fs, call, dir_a_entry, windows>>

\* The guard of line 196.
OnCompareRejects(dir_a, dir_b) == ~IsDir(dir_a) \/ ~IsDir(dir_b)

\* compare_button: on_compare(dir_a_entry, dir_b_entry)
OnCompare(o) ==
    LET dir_a == dir_a_entry
        dir_b == dir_b_entry
        res == CompareDirectories(dir_a, dir_b, o)
        shown == ShowComparisonResult(res.ret)
    IN  /\ IF OnCompareRejects(dir_a, dir_b)
           THEN /\ last' = [Callback("compare") EXCEPT !.msgs = <<"Error">>]
                /\ UNCHANGED windows
           ELSE IF res.outcome = "raised"
           THEN /\ last' = [Callback("compare") EXCEPT !.outcome = "exception",
                                                       !.msgs = res.msgs]
                /\ UNCHANGED windows
           ELSE /\ Len(windows) < MaxWindows
                /\ windows' = Append(windows, shown.window)
                /\ last' = [Callback("compare") EXCEPT
                               !.outcome = IF shown.raised THEN "exception" ELSE "normal",
                               !.msgs = res.msgs,
                               !.shown = res.ret.kind]
        /\ UNCHANGED <<fs, call, dir_a_entry, dir_b_entry>>

\* A click on the heading of a column of a result window.
SortClick(w, column) ==
    /\ w \in 1..Len(windows)
    /\ windows[w].has_tree
    /\ windows' = [windows EXCEPT ![w].rows = SortByColumn(@, column)]
    /\ last' = [Callback("sort") EXCEPT !.arg = <<w, column>>]
    /\ UNCHANGED <<fs, call, dir_a_entry, dir_b_entry>>

\* The user closes a result window.
CloseWindow(w) ==
    /\ w \in 1..Len(windows)
    /\ windows' = SubSeq(windows, 1, w - 1) \o SubSeq(windows, w + 1, Len(windows))
    /\ last' = Callback("close")
    /\ UNCHANGED <<fs, call, dir_a_entry, dir_b_entry>>

\* export_button:
\* export_to_csv(compare_directories(dir_a_entry.get(), dir_b_entry.get()))
Export(o, file_path) ==
    LET res == CompareDirectories(dir_a_entry, dir_b_entry, o)
        df == res.ret
    IN  /\ IF res.outcome = "raised"
           THEN \* export_to_csv is never entered
                /\ file_path = ""
                /\ last' = [Callback("export") EXCEPT !.outcome = "exception",
                                                      !.msgs = res.msgs]
           ELSE IF file_path = ""
           THEN last' = [Callback("export") EXCEPT !.msgs = res.msgs,
                                                   !.exported = df.kind,
                                                   !.save_dialog = TRUE]
           ELSE IF df.kind = "None"
           THEN \* None has no to_csv
                last' = [Callback("export") EXCEPT !.outcome = "exception",
                                                   !.msgs = res.msgs,
                                                   !.exported = df.kind,
                                                   !.save_dialog = TRUE,
                                                   !.file_path = file_path]
           ELSE last' = [Callback("export") EXCEPT
                            !.msgs = res.msgs \o <<"Export Successful">>,
                            !.exported = df.kind,
                            !.save_dialog = TRUE,
                            !.file_path = file_path,
                            !.wrote = TRUE,
                            !.written = ToCsv(df)]
        /\ UNCHANGED <<fs, call, dir_a_entry, dir_b_entry, windows>>

-----------------------------------------------------------------------------
(* The program: the main loop runs one callback after another *)

\* The names in the directories of the program's runs.
GivenNames == {NameList[1], NameList[2], NameList[3]}

\* The directories of the program's runs, by the place of a name in
\* NameList: Directory A, and the two Directory B it is compared with.
FilesOfA == << File(200, 1, 90), File(30, 1, 0), File(30, 1, 0) >>
FilesOfB == << File(0, 0, 0), File(0, 0, 0), Absent >>
FilesOfOtherB == << Absent, File(30, 2, 0), File(30, 1, 90) >>

NameIndex(n) == CHOOSE k \in 1..Len(NameList) : NameList[k] = n

GivenFileSystem(files_b) ==
    [d \in Dirs |->
        [n \in GivenNames |->
            IF d = DirA THEN FilesOfA[NameIndex(n)] ELSE files_b[NameIndex(n)]]]

Init ==
    /\ fs \in {GivenFileSystem(FilesOfB), GivenFileSystem(FilesOfOtherB)}
    /\ call = NoCall
    /\ UIStart

Next ==
    \/ \E text \in Paths : TypeA(text)
    \/ \E text \in Paths : TypeB(text)
    \/ \E picked \in PickerResults : BrowseA(picked)
    \/ \E picked \in PickerResults : BrowseB(picked)
    \/ \E o \in OrdersOf(GivenNames) : OnCompare(o)
    \/ \E w \in 1..MaxWindows, column \in 1..Len(columns) : SortClick(w, column)
    \/ \E w \in 1..MaxWindows : CloseWindow(w)
    \/ \E o \in OrdersOf(GivenNames), file_path \in SaveResults : Export(o, file_path)

Spec == Init /\ [][Next]_vars


-----------------------------------------------------------------------------
(* What the claims speak of *)

\* The last call of compare_directories was given two directories.
CalledOnDirectories ==
    /\ call.args # << >>
    /\ IsDir(call.args[1])
    /\ IsDir(call.args[2])

ResultRows == call.res.ret.rows

\* The rows of a sequence of rows that are about the name n.
RowsOf(rows, n) == {i \in 1..Len(rows) : rows[i][1] = n}

NamesIn(d) == ListDir(d)

ContentDiffers(n, da, db) == Bytes(fs[da][n]) # Bytes(fs[db][n])

SizesDiffer(n, da, db) == fs[da][n].size # fs[db][n].size

\* The value of a text of decimal digits, and -1 for any other text.
RECURSIVE DecValue(_)
DecValue(text) ==
    IF text = << >> THEN -1
    ELSE LET d == Ord(text[Len(text)]) - Ord("0")
             front == SubSeq(text, 1, Len(text) - 1)
         IN  IF d < 0 \/ d > 9 THEN -1
             ELSE IF front = << >> THEN d
             ELSE IF DecValue(front) < 0 THEN -1
             ELSE 10 * DecValue(front) + d

EndsWith(text, suffix) ==
    /\ Len(text) >= Len(suffix)
    /\ SubSeq(text, Len(text) - Len(suffix) + 1, Len(text)) = suffix

Without(text, suffix) == SubSeq(text, 1, Len(text) - Len(suffix))

\* The bytes a size-difference cell states, and -1 when it states none.
BytesStated(cell) ==
    IF EndsWith(cell, bytes_suffix) THEN DecValue(Without(cell, bytes_suffix)) ELSE -1

\* The seconds a time-difference cell states in minutes with one decimal
\* digit, and -1 when it states none.
SecondsStated(cell) ==
    IF ~EndsWith(cell, minutes_suffix) THEN -1
    ELSE LET num == Without(cell, minutes_suffix)
         IN  IF Len(num) < 3 \/ num[Len(num) - 1] # "." THEN -1
             ELSE LET whole == DecValue(SubSeq(num, 1, Len(num) - 2))
                      tenth == DecValue(<<num[Len(num)]>>)
                  IN  IF whole < 0 \/ tenth < 0 THEN -1 ELSE 60 * whole + 6 * tenth

\* A call of compare_directories failed: it raised, or returned no table.
Failed(res) == res.outcome = "raised" \/ res.ret.kind # "DataFrame"

SwapStatus(row) == <<row[1], row[3], row[2], row[4], row[5]>>

RowSet(rows) == {rows[i] : i \in 1..Len(rows)}

\* The number of quote characters of a text before position i.
QuotesBefore(text, i) == Cardinality({j \in 1..(i - 1) : text[j] = "\""})

\* The characters of a text at the positions kept, in their order.
Kept(text, keep) ==
    [k \in 1..Cardinality(keep) |->
        text[CHOOSE i \in keep : Cardinality({j \in keep : j <= i}) = k]]

\* A field of a CSV line read back: a quoted field loses its two quotes and
\* the second quote of every doubled one.
Unquoted(field) ==
    IF field # << >> /\ field[1] = "\""
    THEN LET inner == SubSeq(field, 2, Len(field) - 1)
         IN  Kept(inner, {i \in 1..Len(inner) :
                             inner[i] = "\"" => QuotesBefore(inner, i) % 2 = 0})
    ELSE field

\* The fields of a line of a CSV file: it is cut at the commas outside quotes.
ParseLine(line) ==
    LET cuts == {i \in 1..Len(line) : line[i] = "," /\ QuotesBefore(line, i) % 2 = 0}
        CutAt(k) == IF k = 0 THEN 0
                    ELSE IF k > Cardinality(cuts) THEN Len(line) + 1
                    ELSE CHOOSE i \in cuts : Cardinality({j \in cuts : j <= i}) = k
    IN  [k \in 1..(Cardinality(cuts) + 1) |->
            Unquoted(SubSeq(line, CutAt(k - 1) + 1, CutAt(k) - 1))]

ParsedCsv(lines) == [i \in 1..Len(lines) |-> ParseLine(lines[i])]

-----------------------------------------------------------------------------
(* C1 *)

\* C1: whenever compare_directories is given a path that is not a directory,
\* as dir_a, as dir_b or as both, it shows the Directory Not Found message,
\* returns no table and does nothing else: it lists no directory and
\* compares and stats no file.
C1_DirectoryNotFound ==
    (call.args # << >> /\ (~IsDir(call.args[1]) \/ ~IsDir(call.args[2])))
        => /\ call.res.outcome = "returned"
           /\ call.res.ret = None
           /\ call.res.msgs = <<"Directory Not Found">>
           /\ call.res.listed = << >>
           /\ call.res.compared = {}
           /\ call.res.stated = {}

-----------------------------------------------------------------------------
(* C2 *)

\* C2: for two directories, the names in the result are the names in only
\* one of them together with the common names whose bytes differ, each in
\* exactly one row; a common name with the same bytes is in no row.
C2_ResultNames ==
    CalledOnDirectories =>
        LET da == call.args[1]
            db == call.args[2]
            flagged == (NamesIn(da) \ NamesIn(db)) \cup (NamesIn(db) \ NamesIn(da))
                       \cup {n \in NamesIn(da) \cap NamesIn(db) : ContentDiffers(n, da, db)}
        IN  /\ call.res.ret.kind = "DataFrame"
            /\ {ResultRows[i][1] : i \in 1..Len(ResultRows)} = flagged
            /\ \A n \in flagged : Cardinality(RowsOf(ResultRows, n)) = 1
            /\ \A n \in Names \ flagged : RowsOf(ResultRows, n) = {}

\* A call on two directories that hold a common name of the same bytes but
\* of different times, and a common name of one size and time but of
\* different bytes.
C2_Witness ==
    /\ CalledOnDirectories
    /\ \E n, m \in NamesIn(call.args[1]) \cap NamesIn(call.args[2]) :
          /\ ~ContentDiffers(n, call.args[1], call.args[2])
          /\ fs[call.args[1]][n].mtime # fs[call.args[2]][n].mtime
          /\ RowsOf(ResultRows, n) = {}
          /\ ContentDiffers(m, call.args[1], call.args[2])
          /\ fs[call.args[1]][m].mtime = fs[call.args[2]][m].mtime
          /\ ~SizesDiffer(m, call.args[1], call.args[2])
          /\ RowsOf(ResultRows, m) # {}

-----------------------------------------------------------------------------
(* C3 *)

\* C3: a name only in Directory A has exactly one row, (name, Present,
\* Missing, "-", "-"); a name only in Directory B has exactly one row,
\* (name, Missing, Present, "-", "-").
C3_AsymmetricRows ==
    CalledOnDirectories =>
        LET da == call.args[1]
            db == call.args[2]
        IN  /\ \A n \in NamesIn(da) \ NamesIn(db) :
                  /\ Cardinality(RowsOf(ResultRows, n)) = 1
                  /\ \A i \in RowsOf(ResultRows, n) :
                        ResultRows[i] = <<n, present, missing, <<"-">>, <<"-">> >>
            /\ \A n \in NamesIn(db) \ NamesIn(da) :
                  /\ Cardinality(RowsOf(ResultRows, n)) = 1
                  /\ \A i \in RowsOf(ResultRows, n) :
                        ResultRows[i] = <<n, missing, present, <<"-">>, <<"-">> >>

\* A call on two directories, one name only in the first and one only in the
\* second.
C3_Witness ==
    /\ CalledOnDirectories
    /\ NamesIn(call.args[1]) \ NamesIn(call.args[2]) # {}
    /\ NamesIn(call.args[2]) \ NamesIn(call.args[1]) # {}
    /\ Len(ResultRows) = 2

-----------------------------------------------------------------------------
(* C4 *)

\* C4: a common name whose bytes and sizes differ has one row, of status
\* (Different Size, Different Size), whose size cell states |size_A - size_B|
\* bytes and whose time cell states |mtime_A - mtime_B| in minutes.
C4_DifferentSizeRow ==
    CalledOnDirectories =>
        LET da == call.args[1]
            db == call.args[2]
        IN  \A n \in NamesIn(da) \cap NamesIn(db) :
                (ContentDiffers(n, da, db) /\ SizesDiffer(n, da, db)) =>
                    /\ Cardinality(RowsOf(ResultRows, n)) = 1
                    /\ \A i \in RowsOf(ResultRows, n) :
                          /\ ResultRows[i][2] = different_size
                          /\ ResultRows[i][3] = different_size
                          /\ BytesStated(ResultRows[i][4])
                                = Abs(fs[da][n].size - fs[db][n].size)
                          /\ SecondsStated(ResultRows[i][5])
                                = Abs(fs[da][n].mtime - fs[db][n].mtime)

\* A call on two directories where the file of Directory A is the smaller
\* and the newer one, and its row.
C4_Witness ==
    /\ CalledOnDirectories
    /\ \E n \in NamesIn(call.args[1]) \cap NamesIn(call.args[2]) :
          /\ fs[call.args[1]][n].size < fs[call.args[2]][n].size
          /\ fs[call.args[1]][n].mtime > fs[call.args[2]][n].mtime
          /\ \E i \in RowsOf(ResultRows, n) :
                /\ BytesStated(ResultRows[i][4]) > 0
                /\ SecondsStated(ResultRows[i][5]) > 0

-----------------------------------------------------------------------------
(* C5 *)

\* C5: a common name whose bytes differ and whose sizes are equal has
\* exactly one row, (name, Present, Present, "-", "-"), whatever the two
\* modification times.
C5_EqualSizeRow ==
    CalledOnDirectories =>
        LET da == call.args[1]
            db == call.args[2]
        IN  \A n \in NamesIn(da) \cap NamesIn(db) :
                (ContentDiffers(n, da, db) /\ ~SizesDiffer(n, da, db)) =>
                    /\ Cardinality(RowsOf(ResultRows, n)) = 1
                    /\ \A i \in RowsOf(ResultRows, n) :
                          ResultRows[i] = <<n, present, present, <<"-">>, <<"-">> >>

\* A call on two directories with two such names, one of equal and one of
\* different modification times.
C5_Witness ==
    /\ CalledOnDirectories
    /\ \E n, m \in NamesIn(call.args[1]) \cap NamesIn(call.args[2]) :
          /\ ContentDiffers(n, call.args[1], call.args[2])
          /\ ~SizesDiffer(n, call.args[1], call.args[2])
          /\ fs[call.args[1]][n].mtime # fs[call.args[2]][n].mtime
          /\ ContentDiffers(m, call.args[1], call.args[2])
          /\ ~SizesDiffer(m, call.args[1], call.args[2])
          /\ fs[call.args[1]][m].mtime = fs[call.args[2]][m].mtime
          /\ Len(ResultRows) = 2

-----------------------------------------------------------------------------
(* C6 *)

\* C6: after compare_directories(A, B), compare_directories(B, A) fails
\* exactly if the first did, and its rows are the rows of the first with the
\* two status fields swapped and the difference fields unchanged.
C6_Symmetry ==
    call.args # << >> =>
        \A o \in OrdersOf(Names) :
            LET swapped == CompareDirectories(call.args[2], call.args[1], o)
            IN  /\ Failed(swapped) <=> Failed(call.res)
                /\ Len(swapped.ret.rows) = Len(ResultRows)
                /\ RowSet(swapped.ret.rows) = {SwapStatus(r) : r \in RowSet(ResultRows)}

\* A call on two different directories whose result has a row of a name in
\* one directory only and a Different Size row.
C6_Witness ==
    /\ CalledOnDirectories
    /\ call.args[1] # call.args[2]
    /\ \E i, j \in 1..Len(ResultRows) :
          /\ ResultRows[i][2] = present
          /\ ResultRows[i][3] = missing
          /\ ResultRows[j][2] = different_size
          /\ ResultRows[j][5] # n_a_symbol


-----------------------------------------------------------------------------
(* C7 *)

\* The last callback ran a comparison of two paths that are not both
\* directories.
ComparisonFailed ==
    /\ last.op \in {"compare", "export"}
    /\ OnCompareRejects(dir_a_entry, dir_b_entry)

\* C7: show_comparison_result and export_to_csv are only ever given a result
\* table; when the comparison fails, the callback shows the error message,
\* opens no result window and no save dialog, writes no file and ends
\* normally.
C7_ConsumersGetTable ==
    /\ last.shown \in {"no", "DataFrame"}
    /\ last.exported \in {"no", "DataFrame"}
    /\ ComparisonFailed =>
          /\ last.msgs # << >>
          /\ last.shown = "no"
          /\ ~last.save_dialog
          /\ ~last.wrote
          /\ last.outcome = "normal"

-----------------------------------------------------------------------------
(* C8 *)

\* C8: when export_to_csv has run and the save dialog was cancelled, no file
\* is written, no success message is shown and the callback ends normally;
\* when a path was chosen, the file holds the header and then one line for
\* each row of the comparison result, and nothing else.
C8_Export ==
    (last.op = "export" /\ last.save_dialog) =>
        IF last.file_path = ""
        THEN /\ ~last.wrote
             /\ \A i \in 1..Len(last.msgs) : last.msgs[i] # "Export Successful"
             /\ last.outcome = "normal"
        ELSE /\ last.wrote
             /\ \E o \in OrdersOf(GivenNames) :
                   ParsedCsv(last.written)
                       = <<columns>> \o CompareDirectories(dir_a_entry, dir_b_entry, o).ret.rows

-----------------------------------------------------------------------------
(* C9 *)

\* C9: a Browse click leaves in its entry field exactly what the picker
\* returned, nothing when the pick was cancelled, and leaves the other entry
\* field as it was.
C9_Browse ==
    [][ /\ last'.op = "browse_a" =>
              (dir_a_entry' = last'.file_path /\ dir_b_entry' = dir_b_entry)
        /\ last'.op = "browse_b" =>
              (dir_b_entry' = last'.file_path /\ dir_a_entry' = dir_a_entry) ]_vars

\* A cancelled pick for Directory A whose entry field held a path: the field
\* is empty, and Directory B's field still holds its path.
C9_Witness ==
    /\ last.op = "browse_a"
    /\ last.arg = <<DirA>>
    /\ last.file_path = ""
    /\ dir_a_entry = ""
    /\ dir_b_entry = DirB

-----------------------------------------------------------------------------
(* C10 *)

\* The rows are in ascending order of str in the column.
Ascending(rows, column) ==
    \A i, j \in 1..Len(rows) : i < j => ~TextLess(rows[j][column], rows[i][column])

Position(rows, r) == CHOOSE i \in 1..Len(rows) : rows[i] = r

\* after holds the rows of before, each once.
Permutation(before, after) ==
    /\ Len(after) = Len(before)
    /\ \A i \in 1..Len(before) :
          Cardinality({j \in 1..Len(after) : after[j] = before[i]})
              = Cardinality({j \in 1..Len(before) : before[j] = before[i]})

\* Rows of one cell text in the column keep their order.
Stable(before, after, column) ==
    \A i, j \in 1..Len(before) :
        (i < j /\ before[i][column] = before[j][column])
            => Position(after, before[i]) < Position(after, before[j])

\* C10: a click on a column heading leaves the rows of that table in
\* ascending order of str of that column's cell text, the same rows as
\* before, those of equal cell text in their former order; the other
\* windows are left alone.
C10_ColumnSort ==
    [][ last'.op = "sort" =>
            LET w == last'.arg[1]
                column == last'.arg[2]
            IN  /\ Len(windows') = Len(windows)
                /\ \A v \in 1..Len(windows) : v # w => windows'[v] = windows[v]
                /\ Ascending(windows'[w].rows, column)
                /\ Permutation(windows[w].rows, windows'[w].rows)
                /\ Stable(windows[w].rows, windows'[w].rows, column) ]_vars

\* A table sorted by its Size Difference column in which "200 bytes" stands
\* before "30 bytes".
C10_Witness ==
    /\ last.op = "sort"
    /\ last.arg[2] = 4
    /\ \E i, j \in 1..Len(windows[last.arg[1]].rows) :
          /\ i < j
          /\ windows[last.arg[1]].rows[i][4] = <<"2", "0", "0">> \o bytes_suffix
          /\ windows[last.arg[1]].rows[j][4] = <<"3", "0">> \o bytes_suffix

=============================================================================
